---- MODULE Spec2Model ----
(***************************************************************************)
(* slacker: a CLI that updates Slack presence and custom status on          *)
(* several teams.  The model follows the second program of src/main.go     *)
(* (lines 193-448): flag validation, the expiration computation, the load  *)
(* of the token file, and the dispatcher that starts one goroutine per     *)
(* team and waits for all of them.                                         *)
(*                                                                         *)
(* Abstractions: strings are opaque values; a line of the token file is    *)
(* the sequence of its whitespace-separated fields after TrimSpace (the    *)
(* blank line is <<>>); standard error and standard output are bags of     *)
(* messages (their order across goroutines is not modelled); the error     *)
(* value of a failed call is left out of the messages; every line of the   *)
(* file fits the scanner's buffer, so scanner.Err() is nil.                *)
(***************************************************************************)
EXTENDS Integers, Sequences, FiniteSets, Bags, TLC

\* ------------------------------------------------------------- bounds
MaxLines == 2
MaxArgs == 1
MaxExpiresIn == 1
MaxNow == 1

\* ------------------------------------------------------ input domains
TeamNames == {"teamA", "teamB"}
ArgNames == TeamNames \cup {"teamC"}
EmojiValues == {"", ":zzz:"}
TextValues == {"", "lunch"}
ExpiresAtLiterals ==
    {"", "not-a-date", "1969-12-31T23:59:59", "1970-01-01T00:00:00", "2024-01-01T00:00:00"}
\* Durations are counted in seconds; flag.Duration accepts negative values.
ExpiresInValues == (0 - MaxExpiresIn)..MaxExpiresIn
NowValues == 1..MaxNow

\* The lines a token file is made of: blank, commented-out entry, one
\* field, two fields, three fields.
ConfigLines ==
    { <<>>,
      <<"#teamA", "tok1">>,
      <<"teamA">>,
      <<"teamA", "tok1">>,
      <<"teamB", "tok2">>,
      <<"teamB", "tok2", "extra">> }

SeqsUpTo(S, n) == UNION { [1..k -> S] : k \in 0..n }
ConfigFiles == SeqsUpTo(ConfigLines, MaxLines)
\* flag.Args(): team names, without repetition
ArgLists == { a \in SeqsUpTo(ArgNames, MaxArgs) :
                \A i, j \in DOMAIN a : i # j => a[i] # a[j] }

VARIABLES
    flags,       \* the parsed flags: away, online, emoji, text, clear, debug, expiresIn, expiresAt
    teams,       \* flag.Args()
    expiration,  \* main's local expiration
    mainpc,      \* where main is
    exitCode,    \* the process's exit code, -1 while it runs
    config,      \* the lines of the token file while getTokens has it open
    tokens,      \* the tokens map, of getTokens and then of main
    wg,          \* the WaitGroup's counter
    gpc,         \* where each team's goroutine is
    gargs,       \* the (team, token) arguments each goroutine was started with
    calls,       \* per team, the remote calls issued so far, in order
    stderr,      \* bag of messages written to os.Stderr
    stdout       \* bag of messages written to os.Stdout

vars == <<flags, teams, expiration, mainpc, exitCode, config, tokens, wg,
          gpc, gargs, calls, stderr, stdout>>

\* ----------------------------------------------------------- messages
Msg(fmt) == [fmt |-> fmt, team |-> "", presence |-> "", nline |-> 0,
             line |-> <<>>, teams |-> <<>>, literal |-> ""]

Write(stream, m) == stream (+) SetToBag({m})

\* warn: writes to standard error and returns
warn(m) ==
    /\ stderr' = Write(stderr, m)

\* exit: warn, a newline, os.Exit(code)
exit(code, m) ==
    /\ warn(m)
    /\ mainpc' = "exited"
    /\ exitCode' = code

\* ------------------------------------------------- time (Go's package time)
\* The fields of a literal that matches the layout "2006-01-02T15:04:05":
\* <<year, month, day, hour, minute, second>>; <<>> when time.Parse fails.
LayoutFields(literal) ==
    CASE literal = "1969-12-31T23:59:59" -> <<1969, 12, 31, 23, 59, 59>>
      [] literal = "1970-01-01T00:00:00" -> <<1970, 1, 1, 0, 0, 0>>
      [] literal = "2024-01-01T00:00:00" -> <<2024, 1, 1, 0, 0, 0>>
      [] OTHER -> <<>>

\* Days from 1970-01-01 to the civil date y-m-d (proleptic Gregorian).
DaysFromCivil(y, m, d) ==
    LET yy  == IF m <= 2 THEN y - 1 ELSE y
        era == yy \div 400
        yoe == yy - era * 400
        mp  == IF m > 2 THEN m - 3 ELSE m + 9
        doy == (153 * mp + 2) \div 5 + d - 1
        doe == yoe * 365 + yoe \div 4 - yoe \div 100 + doy
    IN  era * 146097 + doe - 719468

\* time.Parse(layout, literal) without a zone in the layout yields the
\* instant in UTC; Unix() of it.
ParseUnix(literal) ==
    LET f == LayoutFields(literal)
    IN  IF f = <<>>
        THEN [ok |-> FALSE, unix |-> 0]
        ELSE [ok |-> TRUE,
              unix |-> DaysFromCivil(f[1], f[2], f[3]) * 86400
                       + f[4] * 3600 + f[5] * 60 + f[6]]

\* ------------------------------------------------------------- client
\* client.do: the POST it sends; the token is added to the form values
do(c, method, values) ==
    [method |-> method, token |-> c.Token, presence |-> values.presence,
     profile |-> values.profile]

setPresence(c, presence) ==
    do(c, "users.setPresence", [presence |-> presence, profile |-> <<>>])

\* Variant: status_expiration is written for any expiration but zero.
setStatusExpirationNonZero(c, emoji, text, exp) ==
    LET base == << <<"status_text", text>>, <<"status_emoji", emoji>> >>
        profile == IF exp # 0
                   THEN Append(base, <<"status_expiration", exp>>)
                   ELSE base
    IN  do(c, "users.profile.set", [presence |-> "", profile |-> profile])

\* The profile is the JSON object's members in the order they are written.
setStatus(c, emoji, text, exp) ==
    LET base == << <<"status_text", text>>, <<"status_emoji", emoji>> >>
        profile == IF exp > 0
                   THEN Append(base, <<"status_expiration", exp>>)
                   ELSE base
    IN  do(c, "users.profile.set", [presence |-> "", profile |-> profile])

clearStatus(c) == setStatus(c, "", "", 0)

\* ---------------------------------------------------------- getTokens
\* strings.IndexRune(line, '#') == 0 on the trimmed line
StartsWithHash(line) == Len(line) > 0 /\ line[1] \in {"#", "#teamA"}

\* Variant: the empty list of teams is not taken to mean every team.
includeTeamListedOnly(filter, team) ==
    \E i \in DOMAIN filter : filter[i] = team

includeTeam(filter, team) ==
    \/ Len(filter) = 0
    \/ \E i \in DOMAIN filter : filter[i] = team

\* fmt.Sscan(line, &team, &token): fails when the line has fewer than two
\* fields; fields after the second are left unread.
Sscan(line) ==
    IF Len(line) < 2
    THEN [err |-> TRUE, team |-> "", token |-> ""]
    ELSE [err |-> FALSE, team |-> line[1], token |-> line[2]]

\* The scanner loop over lines nline..Len(file), from the map and the
\* warnings gathered so far.
RECURSIVE ScanLines(_, _, _, _, _)
ScanLines(file, filter, nline, toks, warns) ==
    IF nline > Len(file)
    THEN [tokens |-> toks, warns |-> warns]
    ELSE LET line == file[nline]
             s    == Sscan(line)
         IN  IF line = <<>> \/ StartsWithHash(line)
             THEN ScanLines(file, filter, nline + 1, toks, warns)
             ELSE IF s.err
             THEN ScanLines(file, filter, nline + 1, toks,
                    Write(warns, [Msg("error when reading line") EXCEPT
                                    !.nline = nline, !.line = line]))
             ELSE IF includeTeam(filter, s.team)
             THEN ScanLines(file, filter, nline + 1,
                    [t \in DOMAIN toks \cup {s.team} |->
                        IF t = s.team THEN s.token ELSE toks[t]],
                    warns)
             ELSE ScanLines(file, filter, nline + 1, toks, warns)

\* --------------------------------------------------------------- main
\* The places where the program calls exit
ExitSites ==
    {"current user", "no action", "clear with status", "online with away",
     "expires-at with expires-in", "expires-at parse", "expiration with clear",
     "config"}

\* Variant: the last expiration check reuses the code of the one before it.
ExitCodeReused(site) ==
    CASE site = "config" -> 1
      [] site = "current user" -> 2
      [] site = "no action" -> 3
      [] site = "clear with status" -> 3
      [] site = "online with away" -> 3
      [] site = "expires-at with expires-in" -> 4
      [] site = "expires-at parse" -> 5
      [] site = "expiration with clear" -> 5

\* The code each call of exit passes
ExitCode(site) ==
    CASE site = "config" -> 1
      [] site = "current user" -> 2
      [] site = "no action" -> 3
      [] site = "clear with status" -> 3
      [] site = "online with away" -> 3
      [] site = "expires-at with expires-in" -> 4
      [] site = "expires-at parse" -> 5
      [] site = "expiration with clear" -> 6

\* The message each call of exit writes; "no action" stands for
\* flag.Usage() followed by the empty message.
ExitMessage(site) ==
    CASE site = "config" -> "Failure while reading configuration file"
      [] site = "current user" -> "Couldn't get current user"
      [] site = "no action" -> "usage"
      [] site = "clear with status" -> "-clear cannot be used with -away, -text or -emoji"
      [] site = "online with away" -> "-online and -away are mutually exclusive"
      [] site = "expires-at with expires-in" -> "-expires-at and -expires-in are mutually exclusive"
      [] site = "expires-at parse" -> "cannot parse ISO8601 argument"
      [] site = "expiration with clear" -> "cannot use expiration when clearing the status"

exitAt(site, literal, filter) ==
    exit(ExitCode(site), [Msg(ExitMessage(site)) EXCEPT
                            !.literal = literal, !.teams = filter])

\* The conditions main tests on the requested actions
NoAction ==
    ~(flags.clear \/ flags.away \/ flags.online
      \/ flags.emoji # "" \/ flags.text # "")

\* Variant: -text is left out of the test.
ClearConflictEmojiOnly == flags.clear /\ flags.emoji # ""

ClearConflict == flags.clear /\ (flags.emoji # "" \/ flags.text # "")

\* Variant: -online and -away are not tested against each other.
PresenceConflictUnchecked == FALSE

PresenceConflict == flags.online /\ flags.away

Init ==
    /\ flags \in [away : BOOLEAN, online : BOOLEAN, clear : BOOLEAN,
                  debug : BOOLEAN, emoji : EmojiValues, text : TextValues,
                  expiresIn : ExpiresInValues, expiresAt : ExpiresAtLiterals]
    /\ teams \in ArgLists
    /\ expiration = 0
    /\ mainpc = "start"
    /\ exitCode = -1
    /\ config = <<>>
    /\ tokens = <<>>
    /\ wg = 0
    /\ gpc = [t \in TeamNames |-> "idle"]
    /\ gargs = [t \in TeamNames |-> [team |-> "", token |-> ""]]
    /\ calls = [t \in TeamNames |-> <<>>]
    /\ stderr = EmptyBag
    /\ stdout = EmptyBag

\* defaultConfigFile(), evaluated for the -config default before flag.Parse
DefaultConfigFile ==
    /\ mainpc = "start"
    /\ \E userOk \in BOOLEAN :
         IF userOk
         THEN /\ mainpc' = "validate"
              /\ UNCHANGED <<exitCode, stderr>>
         ELSE exitAt("current user", "", <<>>)
    /\ UNCHANGED <<flags, teams, expiration, config, tokens, wg, gpc, gargs,
                   calls, stdout>>

\* The checks on the actions requested
ValidateActions ==
    /\ mainpc = "validate"
    /\ IF NoAction
       THEN exitAt("no action", "", <<>>)
       ELSE IF ClearConflict
       THEN exitAt("clear with status", "", <<>>)
       ELSE IF PresenceConflict
       THEN exitAt("online with away", "", <<>>)
       ELSE /\ mainpc' = "expiration"
            /\ UNCHANGED <<exitCode, stderr>>
    /\ UNCHANGED <<flags, teams, expiration, config, tokens, wg, gpc, gargs,
                   calls, stdout>>

\* The expiration computed from -expires-in (at the time now) or -expires-at.
\* [exit |-> the exit taken, "" when none; exp |-> the value of expiration;
\* literal |-> the literal named in the message]
ComputeExpiration(now) ==
    IF flags.expiresAt # "" /\ flags.expiresIn > 0
    THEN [exit |-> "expires-at with expires-in", exp |-> 0, literal |-> ""]
    ELSE LET parsed == ParseUnix(flags.expiresAt)
             exp == IF flags.expiresIn > 0 THEN now + flags.expiresIn
                    ELSE IF flags.expiresAt # "" THEN parsed.unix
                    ELSE 0
         IN  IF ~(flags.expiresIn > 0) /\ flags.expiresAt # "" /\ ~parsed.ok
             THEN [exit |-> "expires-at parse", exp |-> 0, literal |-> flags.expiresAt]
             ELSE IF exp > 0 /\ flags.clear
             THEN [exit |-> "expiration with clear", exp |-> exp, literal |-> ""]
             ELSE [exit |-> "", exp |-> exp, literal |-> ""]

ValidateExpiration ==
    /\ mainpc = "expiration"
    /\ \E now \in (IF flags.expiresIn > 0 /\ flags.expiresAt = ""
                   THEN NowValues ELSE {0}) :
         LET r == ComputeExpiration(now)
         IN  /\ expiration' = r.exp
             /\ IF r.exit # ""
                THEN exitAt(r.exit, r.literal, <<>>)
                ELSE /\ mainpc' = "tokens"
                     /\ UNCHANGED <<exitCode, stderr>>
    /\ UNCHANGED <<flags, teams, config, tokens, wg, gpc, gargs, calls, stdout>>

\* getTokens up to the end of its scanner loop: os.Open, which may fail (and
\* then main exits), and the lines scanned into the map.
GetTokens ==
    /\ mainpc = "tokens"
    /\ \E opens \in BOOLEAN :
         IF ~opens
         THEN /\ exitAt("config", "open", <<>>)
              /\ UNCHANGED <<config, tokens>>
         ELSE \E file \in ConfigFiles :
                LET r == ScanLines(file, teams, 1, <<>>, EmptyBag)
                IN  /\ config' = file
                    /\ tokens' = r.tokens
                    /\ stderr' = stderr (+) r.warns
                    /\ mainpc' = "scanned"
                    /\ UNCHANGED exitCode
    /\ UNCHANGED <<flags, teams, expiration, wg, gpc, gargs, calls, stdout>>

\* Variant: the empty map is not tested for.
ReturnTokensUnchecked ==
    /\ mainpc = "scanned"
    /\ config' = <<>>
    /\ mainpc' = "dispatch"
    /\ UNCHANGED <<flags, teams, expiration, exitCode, tokens, wg, gpc, gargs, calls,
                   stderr, stdout>>

\* The end of getTokens and main's test of its error: the file is closed,
\* an empty map is an error that names the teams asked for.
ReturnTokens ==
    /\ mainpc = "scanned"
    /\ config' = <<>>
    /\ IF Cardinality(DOMAIN tokens) = 0
       THEN exitAt("config", "no tokens found for teams", teams)
       ELSE /\ mainpc' = "dispatch"
            /\ UNCHANGED <<exitCode, stderr>>
    /\ UNCHANGED <<flags, teams, expiration, tokens, wg, gpc, gargs, calls, stdout>>

\* --------------------------------------------------------- dispatcher
\* One iteration of the range loop (the map is ranged in any order):
\* wg.Add(1) and the go statement with its arguments.
Spawn(t) ==
    /\ mainpc = "dispatch"
    /\ t \in DOMAIN tokens
    /\ gpc[t] = "idle"
    /\ wg' = wg + 1
    /\ gargs' = [gargs EXCEPT ![t] = [team |-> t, token |-> tokens[t]]]
    /\ gpc' = [gpc EXCEPT ![t] = "start"]
    /\ UNCHANGED <<flags, teams, expiration, mainpc, exitCode, config, tokens,
                   calls, stderr, stdout>>

\* Variant: the goroutine reads a token variable shared by all iterations
\* of the loop instead of its own argument.
ClientLoopVariable(t) == [Token |-> tokens[CHOOSE u \in DOMAIN tokens : TRUE]]

\* The goroutine's own client
Client(t) == [Token |-> gargs[t].token]

\* Variant: the presence section moved before the status sections.
NextSectionPresenceFirst(pc) ==
    CASE pc = "start" -> "presence"
      [] pc = "presence" -> "clear"
      [] pc = "clear" -> "status"
      [] pc = "status" -> "done"

\* The order of the goroutine's sections
NextSection(pc) ==
    CASE pc = "start" -> "clear"
      [] pc = "clear" -> "status"
      [] pc = "status" -> "presence"
      [] pc = "presence" -> "done"

\* Variant: wg.Done() is never called.
AdvanceNoDone(t) ==
    /\ gpc' = [gpc EXCEPT ![t] = NextSection(gpc[t])]
    /\ wg' = wg

\* Leaving a section; the deferred wg.Done() runs when the function returns.
Advance(t) ==
    /\ gpc' = [gpc EXCEPT ![t] = NextSection(gpc[t])]
    /\ wg' = IF NextSection(gpc[t]) = "done" THEN wg - 1 ELSE wg

\* Variant: a failed call ends the process, as the sequential program of
\* lines 64-82 did.
OnCallErrorExit(m) == exit(7, m)

\* Variant: the error of a failed call is dropped.
OnCallErrorSilent(m) == UNCHANGED <<stderr, mainpc, exitCode>>

\* if err := ...; err != nil { warn(...) }: the goroutine goes on
OnCallError(m) ==
    /\ warn(m)
    /\ UNCHANGED <<mainpc, exitCode>>

SomeCallFailed(t) == \E i \in DOMAIN calls[t] : ~calls[t][i].ok

\* Variant: a failed call is tried a second time before it is reported.
AttemptWithRetry(t, action, req, m) ==
    \E ok \in BOOLEAN :
      IF ok
      THEN /\ calls' = [calls EXCEPT ![t] = Append(@, [action |-> action,
                                                         req |-> req, ok |-> TRUE])]
           /\ UNCHANGED <<mainpc, exitCode, stderr>>
      ELSE /\ calls' = [calls EXCEPT ![t] =
                          @ \o << [action |-> action, req |-> req, ok |-> FALSE],
                                  [action |-> action, req |-> req, ok |-> FALSE] >>]
           /\ OnCallError(m)

\* One remote call of team t's goroutine and the handling of its result.
Attempt(t, action, req, m) ==
    \E ok \in BOOLEAN :
      /\ calls' = [calls EXCEPT ![t] = Append(@, [action |-> action, req |-> req,
                                                    ok |-> ok])]
      /\ IF ok
         THEN UNCHANGED <<mainpc, exitCode, stderr>>
         ELSE OnCallError(m)

NoAttempt == UNCHANGED <<calls, mainpc, exitCode, stderr>>

GoStart(t) ==
    /\ mainpc = "dispatch"
    /\ gpc[t] = "start"
    /\ stdout' = IF flags.debug
                 THEN Write(stdout, [Msg("Updating") EXCEPT !.team = gargs[t].team])
                 ELSE stdout
    /\ Advance(t)
    /\ UNCHANGED <<flags, teams, expiration, mainpc, exitCode, config, tokens,
                   gargs, calls, stderr>>

GoClear(t) ==
    /\ mainpc = "dispatch"
    /\ gpc[t] = "clear"
    /\ IF flags.clear
       THEN Attempt(t, "clear status", clearStatus(Client(t)),
                    [Msg("Cannot clear status in") EXCEPT !.team = gargs[t].team])
       ELSE NoAttempt
    /\ Advance(t)
    /\ UNCHANGED <<flags, teams, expiration, config, tokens, gargs, stdout>>

\* Variant: an expiration alone also makes the goroutine set the status.
GoStatusOnExpiration(t) ==
    /\ mainpc = "dispatch"
    /\ gpc[t] = "status"
    /\ IF flags.emoji # "" \/ flags.text # "" \/ expiration > 0
       THEN Attempt(t, "set custom status",
                    setStatus(Client(t), flags.emoji, flags.text, expiration),
                    [Msg("Cannot set custom status in") EXCEPT !.team = gargs[t].team])
       ELSE NoAttempt
    /\ Advance(t)
    /\ UNCHANGED <<flags, teams, expiration, config, tokens, gargs, stdout>>

GoStatus(t) ==
    /\ mainpc = "dispatch"
    /\ gpc[t] = "status"
    /\ IF flags.emoji # "" \/ flags.text # ""
       THEN Attempt(t, "set custom status",
                    setStatus(Client(t), flags.emoji, flags.text, expiration),
                    [Msg("Cannot set custom status in") EXCEPT !.team = gargs[t].team])
       ELSE NoAttempt
    /\ Advance(t)
    /\ UNCHANGED <<flags, teams, expiration, config, tokens, gargs, stdout>>

\* var presence string; online wins over away
Presence ==
    IF flags.online THEN "auto" ELSE IF flags.away THEN "away" ELSE ""

\* Variant: the goroutine returns at its first failed call.
GoPresenceSkipAfterFailure(t) ==
    /\ mainpc = "dispatch"
    /\ gpc[t] = "presence"
    /\ IF Presence # "" /\ ~SomeCallFailed(t)
       THEN Attempt(t, "set presence", setPresence(Client(t), Presence),
                    [Msg("Cannot set presence to") EXCEPT
                       !.presence = Presence, !.team = gargs[t].team])
       ELSE NoAttempt
    /\ Advance(t)
    /\ UNCHANGED <<flags, teams, expiration, config, tokens, gargs, stdout>>

GoPresence(t) ==
    /\ mainpc = "dispatch"
    /\ gpc[t] = "presence"
    /\ IF Presence # ""
       THEN Attempt(t, "set presence", setPresence(Client(t), Presence),
                    [Msg("Cannot set presence to") EXCEPT
                       !.presence = Presence, !.team = gargs[t].team])
       ELSE NoAttempt
    /\ Advance(t)
    /\ UNCHANGED <<flags, teams, expiration, config, tokens, gargs, stdout>>

\* Variant: no barrier, main returns as soon as the loop is over.
WaitReturnsAlways == TRUE

\* wg.Wait() returns when the counter is zero
WaitReturns == wg = 0

\* The range loop is over, wg.Wait() returns and main returns.
Wait ==
    /\ mainpc = "dispatch"
    /\ \A t \in DOMAIN tokens : gpc[t] # "idle"
    /\ WaitReturns
    /\ mainpc' = "returned"
    /\ exitCode' = 0
    /\ UNCHANGED <<flags, teams, expiration, config, tokens, wg, gpc, gargs,
                   calls, stderr, stdout>>

Next ==
    \/ DefaultConfigFile
    \/ ValidateActions
    \/ ValidateExpiration
    \/ GetTokens
    \/ ReturnTokens
    \/ \E t \in TeamNames : Spawn(t)
    \/ \E t \in TeamNames : GoStart(t)
    \/ \E t \in TeamNames : GoClear(t)
    \/ \E t \in TeamNames : GoStatus(t)
    \/ \E t \in TeamNames : GoPresence(t)
    \/ Wait

Spec == Init /\ [][Next]_vars

\* The runtime keeps running main and the goroutines while any of them can
\* take a step, and every remote call returns (each is bounded by the
\* one-minute timeout of client.do).
LiveSpec == Spec /\ WF_vars(Next)

\* ============================================================== claims
Range(f) == { f[i] : i \in DOMAIN f }

\* The sub-actions the flags request, in the order of the goroutine's sections
Requested ==
    (IF flags.clear THEN <<"clear status">> ELSE <<>>)
    \o (IF flags.emoji # "" \/ flags.text # "" THEN <<"set custom status">> ELSE <<>>)
    \o (IF flags.online \/ flags.away THEN <<"set presence">> ELSE <<>>)

\* The sub-actions attempted so far on team t
Attempted(t) == [i \in DOMAIN calls[t] |-> calls[t][i].action]

NoCallIssued == \A t \in TeamNames : calls[t] = <<>>

Ended == mainpc \in {"returned", "exited"}

\* C1: once the process has ended after the tokens were loaded, every
\* loaded team has had each of its requested sub-actions attempted, whatever
\* calls failed on the other teams (or on itself).
C1_FailureIsolation ==
    (Ended /\ DOMAIN tokens # {}) =>
        \A b \in DOMAIN tokens : Attempted(b) = Requested

\* C1 witness: a call of team a failed and team b had all its sub-actions
\* attempted.
C1_Witness ==
    /\ mainpc = "returned"
    /\ \E a, b \in DOMAIN tokens :
         /\ a # b
         /\ SomeCallFailed(a)
         /\ ~SomeCallFailed(b)
         /\ Len(Requested) = 2
         /\ Attempted(b) = Requested

\* C2: main returns only when the goroutine of every loaded team has
\* finished.
C2_ReturnsAfterAllDone ==
    mainpc = "returned" => \A t \in DOMAIN tokens : gpc[t] = "done"

\* C2 witness: main has returned with two teams loaded, one with a failed
\* call and one without.
C2_Witness ==
    /\ mainpc = "returned"
    /\ DOMAIN tokens = {"teamA", "teamB"}
    /\ SomeCallFailed("teamA")
    /\ ~SomeCallFailed("teamB")
    /\ calls["teamB"] # <<>>

\* C3: in the calls of one team, no set-presence call precedes a status
\* call and no set-custom-status call precedes a clear-status call.
C3_FixedOrder ==
    \A t \in TeamNames :
      \A i, j \in DOMAIN calls[t] :
        i < j =>
          /\ ~(/\ calls[t][i].req.method = "users.setPresence"
               /\ calls[t][j].req.method = "users.profile.set")
          /\ ~(/\ calls[t][i].action = "set custom status"
               /\ calls[t][j].action = "clear status")

\* C3 witness: a team with a status call followed by a presence call.
C3_Witness ==
    \E t \in TeamNames :
      /\ Len(calls[t]) = 2
      /\ calls[t][1].req.method = "users.profile.set"
      /\ calls[t][2].req.method = "users.setPresence"

\* The scenario of C4: teamA and teamB loaded from the file, no team named,
\* -clear alone
C4_Scenario ==
    /\ mainpc \in {"dispatch", "returned", "exited"}
    /\ tokens = [t \in {"teamA", "teamB"} |->
                   IF t = "teamA" THEN "tok1" ELSE "tok2"]
    /\ teams = <<>>
    /\ flags.clear /\ ~flags.away /\ ~flags.online
    /\ flags.emoji = "" /\ flags.text = ""
    /\ flags.expiresIn = 0 /\ flags.expiresAt = ""

ClearCalls(t) == { i \in DOMAIN calls[t] : calls[t][i].action = "clear status" }

\* C4: in the scenario there is never more than one clear-status call per
\* team, the process never exits through exit, and when main has returned
\* each of teamA and teamB has had exactly one clear-status call (with its
\* own token) and the exit code is 0, whether or not calls failed.
C4_ClearBothTeams ==
    C4_Scenario =>
        /\ mainpc # "exited"
        /\ \A t \in {"teamA", "teamB"} :
             /\ Cardinality(ClearCalls(t)) <= 1
             /\ \A i \in ClearCalls(t) :
                  calls[t][i].req = clearStatus([Token |-> tokens[t]])
        /\ mainpc = "returned" =>
             /\ exitCode = 0
             /\ \A t \in {"teamA", "teamB"} : Cardinality(ClearCalls(t)) = 1

\* C4 witness: the scenario has run to the end and teamA's call failed.
C4_Witness ==
    /\ C4_Scenario
    /\ mainpc = "returned"
    /\ exitCode = 0
    /\ SomeCallFailed("teamA")
    /\ ~SomeCallFailed("teamB")

\* The team names of the file's entries: the first field of every line that
\* is neither blank nor a comment and holds a team and a token.
NamesPresent(file) ==
    { file[i][1] : i \in { k \in DOMAIN file :
                             /\ Len(file[k]) >= 2
                             /\ ~StartsWithHash(file[k]) } }

C6_ClearWithStatusRejected ==
    (flags.clear /\ (flags.emoji # "" \/ flags.text # "")) =>
        /\ mainpc \in {"start", "validate", "exited"}
        /\ NoCallIssued
        /\ mainpc = "exited" =>
             \/ exitCode = ExitCode("current user")
             \/ /\ exitCode = ExitCode("clear with status")
                /\ BagIn(Msg(ExitMessage("clear with status")), stderr)

\* C6 witness: -clear with -text alone has been rejected.
C6_Witness ==
    /\ flags.clear /\ flags.emoji = "" /\ flags.text # ""
    /\ mainpc = "exited"
    /\ exitCode = 3
    /\ BagIn(Msg(ExitMessage("clear with status")), stderr)

\* C7: with -away and -online, the program never gets past the validation
\* of the actions: the token file is never read, no team is loaded, no
\* goroutine is started and no call is issued; the exit code is that of the
\* usage errors (or of the user lookup).
C7_AwayWithOnlineRejected ==
    (flags.away /\ flags.online) =>
        /\ mainpc \in {"start", "validate", "exited"}
        /\ config = <<>> /\ DOMAIN tokens = {}
        /\ \A t \in TeamNames : gpc[t] = "idle"
        /\ NoCallIssued
        /\ mainpc = "exited" => exitCode \in {ExitCode("current user"), 3}

\* C7 witness: -away with -online, and nothing else, has been rejected.
C7_Witness ==
    /\ flags.away /\ flags.online /\ ~flags.clear
    /\ flags.emoji = "" /\ flags.text = ""
    /\ mainpc = "exited"
    /\ exitCode = 3
    /\ BagIn(Msg(ExitMessage("online with away")), stderr)

\* The failure classes of the exit codes
ClassOf(site) ==
    CASE site = "config" -> "config read failure"
      [] site = "current user" -> "home-directory resolution failure"
      [] site = "no action" -> "usage/no-action"
      [] site = "clear with status" -> "conflicting clear+custom-status"
      [] site = "online with away" -> "conflicting away+online"
      [] site = "expires-at with expires-in" -> "conflicting/invalid expiration"
      [] site = "expires-at parse" -> "conflicting/invalid expiration"
      [] site = "expiration with clear" -> "expiration used with clear"

\* The exits whose message is on standard error
SitesTaken ==
    { s \in ExitSites : \E m \in BagToSet(stderr) : m.fmt = ExitMessage(s) }

UsageSites == {"no action", "clear with status", "online with away"}

C9_ClearResetsPresence ==
    (flags.clear /\ mainpc = "returned") =>
        \A t \in DOMAIN tokens :
            /\ \E i \in DOMAIN calls[t] : calls[t][i].action = "clear status"
            /\ \E i \in DOMAIN calls[t] :
                 /\ calls[t][i].req.method = "users.setPresence"
                 /\ calls[t][i].req.presence = "auto"

\* C10 as stated: with -clear and an expiration given in either form
\* (-expires-in other than the default 0, or a non-empty -expires-at), no
\* call is ever issued and main never returns normally.
C10_ExpirationWithClearRejected ==
    (flags.clear /\ (flags.expiresIn # 0 \/ flags.expiresAt # "")) =>
        /\ NoCallIssued
        /\ mainpc # "returned"

\* C11 as stated: with both -expires-in (other than the default 0) and a
\* non-empty -expires-at given, no call is ever issued and main never
\* returns normally.
C11_BothExpirationsRejected ==
    (flags.expiresIn # 0 /\ flags.expiresAt # "") =>
        /\ NoCallIssued
        /\ mainpc # "returned"

\* The lines of the file that are neither blank nor comments
EntryLines(file) ==
    { k \in DOMAIN file : file[k] # <<>> /\ ~StartsWithHash(file[k]) }

LineWarning(k, line) ==
    [Msg("error when reading line") EXCEPT !.nline = k, !.line = line]

\* C12 as stated: when the file has been scanned, every line that is
\* neither blank nor a comment and does not have exactly two fields has
\* been warned about once with its line number, and the keys of the map are
\* the teams of the two-field lines that pass the filter, whatever other
\* lines the file holds.
C12_OnlyTwoFieldLines ==
    mainpc = "scanned" =>
        /\ \A k \in EntryLines(config) :
             Len(config[k]) # 2 =>
                 CopiesIn(LineWarning(k, config[k]), stderr) = 1
        /\ DOMAIN tokens =
             { config[k][1] : k \in { j \in EntryLines(config) :
                                        /\ Len(config[j]) = 2
                                        /\ includeTeam(teams, config[j][1]) } }

NoTokensMessage ==
    [Msg(ExitMessage("config")) EXCEPT
       !.literal = "no tokens found for teams", !.teams = teams]

\* C13: the dispatcher never runs with an empty map, and the step taken
\* after a scan that left the map empty is the exit with the code of the
\* configuration failure and a message that names the teams asked for, with
\* no call issued.
C13_NoTokensIsFatal ==
    /\ [](mainpc \in {"dispatch", "returned"} => DOMAIN tokens # {})
    /\ [][(mainpc = "scanned" /\ DOMAIN tokens = {}) =>
            /\ mainpc' = "exited"
            /\ exitCode' = ExitCode("config")
            /\ CopiesIn(NoTokensMessage, stderr') = 1
            /\ \A t \in TeamNames : calls'[t] = <<>> /\ gpc'[t] = "idle"]_vars

\* C13 witness: teamC was asked for, the file held other teams only, and
\* the process has exited on the empty map.
C13_Witness ==
    /\ mainpc = "exited"
    /\ exitCode = 1
    /\ teams = <<"teamC">>
    /\ BagIn(NoTokensMessage, stderr)
    /\ NoCallIssued

\* Lines of one field are warned about with their line number, once, and
\* lines of two fields or more give the keys of the map.
ScanWarnsShortLines ==
    mainpc = "scanned" =>
        /\ \A k \in EntryLines(config) :
             CopiesIn(LineWarning(k, config[k]), stderr)
                 = IF Len(config[k]) < 2 THEN 1 ELSE 0
        /\ DOMAIN tokens =
             { config[k][1] : k \in { j \in EntryLines(config) :
                                        /\ Len(config[j]) >= 2
                                        /\ includeTeam(teams, config[j][1]) } }

\* The offsets east of UTC, in seconds, of the zones the program may run in.
\* The program never reads its zone, so its runs are the same in each.
UTCOffsets == {0 - 10800, 0, 3600}

\* The Unix time of a well-formed literal read as local time at the offset
LocalUnix(literal, offset) ==
    LET f == LayoutFields(literal)
    IN  DaysFromCivil(f[1], f[2], f[3]) * 86400
        + f[4] * 3600 + f[5] * 60 + f[6] - offset

ExpiresAtUsed == flags.expiresAt # "" /\ ~(flags.expiresIn > 0)

\* C14 as stated: once the expiration is computed from a well-formed
\* -expires-at literal, it is the Unix time of the literal read as local
\* time, at every offset of the local zone; a literal that does not parse
\* ends the run with the parse failure's exit and a message that holds the
\* literal.
C14_ExpiresAtIsLocalTime ==
    (ExpiresAtUsed /\ mainpc \notin {"start", "validate", "expiration"}
        /\ exitCode \notin {2, 3}) =>
        IF LayoutFields(flags.expiresAt) # <<>>
        THEN \A offset \in UTCOffsets :
               expiration = LocalUnix(flags.expiresAt, offset)
        ELSE /\ mainpc = "exited"
             /\ exitCode = 5
             /\ BagIn([Msg(ExitMessage("expires-at parse")) EXCEPT
                         !.literal = flags.expiresAt], stderr)

SubActions == {"clear status", "set custom status", "set presence"}

\* The report of a failed sub-action of team t
FailureReport(t, action) ==
    CASE action = "clear status" ->
           [Msg("Cannot clear status in") EXCEPT !.team = t]
      [] action = "set custom status" ->
           [Msg("Cannot set custom status in") EXCEPT !.team = t]
      [] action = "set presence" ->
           [Msg("Cannot set presence to") EXCEPT !.team = t, !.presence = Presence]

FailedCalls(t, action) ==
    { i \in DOMAIN calls[t] : calls[t][i].action = action /\ ~calls[t][i].ok }

\* C15: for every team and every sub-action, standard error holds the
\* report tagged with that team and that sub-action once for each failed
\* call of it, and not at all when none failed.
C15_FailuresReportedOnce ==
    \A t \in TeamNames : \A action \in SubActions :
        CopiesIn(FailureReport(t, action), stderr)
            = Cardinality(FailedCalls(t, action))

\* C15 witness: a status call of teamA and the presence call of teamB
\* failed, and teamA's presence call succeeded.
C15_Witness ==
    /\ mainpc = "returned"
    /\ Len(calls["teamA"]) = 2 /\ Len(calls["teamB"]) = 2
    /\ ~calls["teamA"][1].ok /\ calls["teamA"][2].ok
    /\ calls["teamB"][1].ok /\ ~calls["teamB"][2].ok
    /\ BagCardinality(stderr) = 2

CallsOf(t, action) == { i \in DOMAIN calls[t] : calls[t][i].action = action }

\* C16: with every call returning, the process always ends (main returns
\* or the program exits), and no sub-action is ever attempted more than once
\* on a team, whether its call succeeded or failed.
C16_Terminates ==
    /\ <>Ended
    /\ [](\A t \in TeamNames : \A action \in SubActions :
            Cardinality(CallsOf(t, action)) <= 1)

\* C16 witness: main has returned although every call of teamA failed.
C16_Witness ==
    /\ mainpc = "returned"
    /\ DOMAIN tokens = {"teamA", "teamB"}
    /\ Len(calls["teamA"]) = 2
    /\ \A i \in DOMAIN calls["teamA"] : ~calls["teamA"][i].ok
    /\ Attempted("teamB") = Requested

\* The members of a profile with the given name
Members(profile, name) == { i \in DOMAIN profile : profile[i][1] = name }

MemberIs(profile, name, value) ==
    \E i \in DOMAIN profile : profile[i] = <<name, value>>

\* C17: every set-custom-status call sends the text and the emoji of the
\* flags, and a status_expiration member, holding the expiration, exactly
\* when the expiration is positive; every clear-status call sends empty
\* text, empty emoji and no status_expiration, to the same method.
C17_StatusPayload ==
    \A t \in TeamNames : \A i \in DOMAIN calls[t] :
        LET call == calls[t][i]
            profile == call.req.profile
        IN  /\ call.action = "set custom status" =>
                /\ call.req.method = "users.profile.set"
                /\ MemberIs(profile, "status_text", flags.text)
                /\ MemberIs(profile, "status_emoji", flags.emoji)
                /\ (Members(profile, "status_expiration") # {}) <=> (expiration > 0)
                /\ expiration > 0 =>
                     MemberIs(profile, "status_expiration", expiration)
            /\ call.action = "clear status" =>
                /\ call.req.method = "users.profile.set"
                /\ MemberIs(profile, "status_text", "")
                /\ MemberIs(profile, "status_emoji", "")
                /\ Members(profile, "status_expiration") = {}
                /\ Len(profile) = 2

\* C17 witness: set-custom-status calls were sent with an expiration on one
\* team, and a negative expiration is among the values the check covers.
C17_Witness ==
    /\ expiration > 0
    /\ \E t \in TeamNames : \E i \in DOMAIN calls[t] :
         /\ calls[t][i].action = "set custom status"
         /\ Len(calls[t][i].req.profile) = 3

\* The status or clear call of team t failed.
StatusCallFailed(t) ==
    \E i \in DOMAIN calls[t] :
        /\ calls[t][i].action \in {"clear status", "set custom status"}
        /\ ~calls[t][i].ok

\* C18: a failed clear or status call does not stop the account's later
\* sub-actions: once the goroutine has gone through its presence section with
\* a presence requested, the presence call was issued, after the failed call,
\* and when the goroutine is done every requested sub-action was attempted.
C18_FailureDoesNotStopLater ==
    \A t \in TeamNames :
        /\ (StatusCallFailed(t) /\ Presence # "" /\ gpc[t] = "done") =>
              /\ Len(calls[t]) = 2
              /\ ~calls[t][1].ok
              /\ calls[t][2].action = "set presence"
              /\ calls[t][2].req.presence = Presence
        /\ (StatusCallFailed(t) /\ gpc[t] = "done") => Attempted(t) = Requested

\* C18 witness: the status call of an account failed and its presence call
\* was issued afterwards.
C18_Witness ==
    \E t \in TeamNames :
        /\ gpc[t] = "done"
        /\ Len(calls[t]) = 2
        /\ calls[t][1].action = "set custom status"
        /\ ~calls[t][1].ok
        /\ calls[t][2].action = "set presence"

\* C19: every call issued for an account carries the token loaded for that
\* account from the configuration, and a goroutine holds the team and the
\* token of its own account.
C19_OwnToken ==
    \A t \in TeamNames :
        /\ gpc[t] # "idle" =>
              /\ t \in DOMAIN tokens
              /\ gargs[t] = [team |-> t, token |-> tokens[t]]
        /\ \A i \in DOMAIN calls[t] :
              /\ t \in DOMAIN tokens
              /\ calls[t][i].req.token = tokens[t]

\* C19 witness: two accounts with different tokens have each been called.
C19_Witness ==
    /\ \A t \in TeamNames : calls[t] # <<>>
    /\ calls["teamA"][1].req.token # calls["teamB"][1].req.token

\* The flags give one expiration: a positive -expires-in alone, or a
\* well-formed -expires-at with no positive -expires-in.
OneExpirationGiven ==
    \/ flags.expiresIn > 0 /\ flags.expiresAt = ""
    \/ ~(flags.expiresIn > 0) /\ flags.expiresAt # "" /\ ParseUnix(flags.expiresAt).ok

\* The only action asked for is one presence.
PresenceOnly ==
    /\ ~flags.clear
    /\ flags.emoji = ""
    /\ flags.text = ""
    /\ flags.online # flags.away

\* The messages of the exits taken while validating the flags
ValidationMessages ==
    { ExitMessage(s) : s \in ExitSites \ {"config", "current user"} }

\* C20: with one expiration given and a presence as the only action, no
\* validation exit is taken and nothing is said about the expiration; every
\* call issued is the presence call, with no status_expiration, and at the
\* return each loaded account has received exactly that one call.
C20_ExpirationDroppedWithPresenceOnly ==
    (OneExpirationGiven /\ PresenceOnly) =>
        /\ mainpc = "exited" =>
              exitCode \in {ExitCode("config"), ExitCode("current user")}
        /\ \A m \in BagToSet(stderr) : m.fmt \notin ValidationMessages
        /\ \A t \in TeamNames : \A i \in DOMAIN calls[t] :
              /\ calls[t][i].action = "set presence"
              /\ calls[t][i].req = setPresence([Token |-> tokens[t]], Presence)
              /\ Members(calls[t][i].req.profile, "status_expiration") = {}
        /\ mainpc = "returned" =>
              \A t \in DOMAIN tokens :
                  /\ Attempted(t) = <<"set presence">>
                  /\ calls[t][1].ok => \A m \in BagToSet(stderr) : m.team # t

\* C20 witness: only -away with -expires-in; the run is over with a positive
\* expiration computed and the presence call as the only call of an account.
C20_Witness ==
    /\ mainpc = "returned"
    /\ PresenceOnly
    /\ flags.away
    /\ flags.expiresIn > 0
    /\ flags.expiresAt = ""
    /\ expiration > 0
    /\ \E t \in DOMAIN tokens : Attempted(t) = <<"set presence">>

====
